---- MODULE Spec2Model ----
(***************************************************************************)
(* Model of the telecom offer scanner (src/main.py): the text parser       *)
(* parse_offer_text, the two scrapers, process_data and main.              *)
(*                                                                         *)
(* A Python str is modelled as the sequence of its code points, so that    *)
(* searching, stripping, splitting and joining are computed.               *)
(***************************************************************************)
EXTENDS Integers, Sequences, FiniteSets, TLC

VARIABLES
    \* ---- parse_offer_text (one call) ----
    text_block,      \* the argument
    ppc,             \* position inside parse_offer_text
    lines,           \* the list `lines`; each element carries its index in the
                     \* list built at line 66 (pos) next to its text
    price,           \* str
    price_pos,       \* pos of the line consumed as price, 0 when none
    details,         \* the list `details` (elements as in lines)
    validity,        \* str
    validity_pos,    \* pos of the line that last assigned validity, 0 when none
    filtered_lines,  \* the list `filtered_lines`
    name,            \* str
    name_pos,        \* pos of the line chosen as name, 0 when none
    full_details,    \* str
    \* ---- main (one run after another) ----
    pc,              \* position inside main
    driver,          \* "none", "failed", "open", "quit" or "quit_raised"
    all_offers,      \* the list all_offers of main
    ledger,          \* the data rows of the sheet, in append order
    batch,           \* for each ledger row, the number of the append_rows call
                     \* that wrote it
    existing_records,\* what process_data read from the sheet
    processed_rows,  \* the list processed_rows of process_data
    today,           \* str
    zong_ret,        \* how scrape_zong ended in this run ("returned", "caught" when
                     \* its own handler caught an exception, "failed" when it
                     \* raised), and the list it returned
    jazz_ret,        \* the same for scrape_jazz
    reads,           \* get_all_records calls of this run
    appends          \* append_rows calls of this run that returned

parse_vars == <<text_block, ppc, lines, price, price_pos, details, validity,
                validity_pos, filtered_lines, name, name_pos, full_details>>

run_vars == <<pc, driver, all_offers, ledger, batch, existing_records,
              processed_rows, today, zong_ret, jazz_ret, reads, appends>>

vars == <<parse_vars, run_vars>>

-----------------------------------------------------------------------------
(* Bounds *)

\* most raw lines in one text block
MaxLines == 3

\* most cards one page shows
MaxCards == 2

\* most data rows of the sheet: a run finds no more cards than rows are left
MaxLedger == 3

\* most rows of a sheet that process_data is applied to on its own
MaxHist == 2

-----------------------------------------------------------------------------
(* str primitives *)

\* the code points that match an ASCII letter of a pattern under
\* re.IGNORECASE besides the letter's two cases: U+0130 and U+0131 match i,
\* U+212A matches k, U+017F matches s
FoldsTo == (304 :> 105) @@ (305 :> 105) @@ (8490 :> 107) @@ (383 :> 115)

\* re.IGNORECASE compares characters up to case: the lowercase ASCII letter a
\* code point stands for, the code point itself when it stands for none
lower(c) ==
    IF c \in 65..90 THEN c + 32
    ELSE IF c \in DOMAIN FoldsTo THEN FoldsTo[c]
    ELSE c

\* the digit zero of every run of ten Unicode decimal digits (category Nd)
DigitZeros == {
    48, 1632, 1776, 1984, 2406, 2534, 2662, 2790, 2918, 3046, 3174, 3302,
    3430, 3558, 3664, 3792, 3872, 4160, 4240, 6112, 6160, 6470, 6608,
    6784, 6800, 6992, 7088, 7232, 7248, 42528, 43216, 43264, 43472, 43504,
    43600, 44016, 65296, 66720, 68912, 69734, 69872, 69942, 70096, 70384,
    70736, 70864, 71248, 71360, 71472, 71904, 72016, 72784, 73040, 73120,
    92768, 92864, 93008, 120782, 120792, 120802, 120812, 120822, 123200,
    123632, 125264, 130032 }

\* \d on a str pattern: every Unicode decimal digit
Digits == UNION {z..(z + 9) : z \in DigitZeros}

\* \s on a str pattern, and what str.strip() removes: every code point with
\* str.isspace()
Whitespace == (9..13) \cup (28..32) \cup {133, 160, 5760} \cup (8192..8202)
                  \cup {8232, 8233, 8239, 8287, 12288}

MinOf(S) == CHOOSE x \in S : \A y \in S : x <= y

MaxOf(S) == CHOOSE x \in S : \A y \in S : y <= x

\* pat occurs in s starting at index i, exactly
match_at(s, pat, i) ==
    /\ i >= 1
    /\ i + Len(pat) - 1 <= Len(s)
    /\ \A j \in 1..Len(pat) : s[i + j - 1] = pat[j]

\* pat occurs in s starting at index i, ignoring letter case
match_at_ci(s, pat, i) ==
    /\ i >= 1
    /\ i + Len(pat) - 1 <= Len(s)
    /\ \A j \in 1..Len(pat) : lower(s[i + j - 1]) = lower(pat[j])

\* Python `pat in s`
contains(s, pat) == \E i \in 1..(Len(s) + 1) : match_at(s, pat, i)

\* re.compile(pat, re.IGNORECASE).search(s) for a literal pat
search_ci(s, pat) == \E i \in 1..(Len(s) + 1) : match_at_ci(s, pat, i)

\* str.strip()
strip(s) ==
    LET keep == {i \in 1..Len(s) : s[i] \notin Whitespace}
    IN  IF keep = {} THEN <<>> ELSE SubSeq(s, MinOf(keep), MaxOf(keep))

RECURSIVE split_nl(_)
\* str.split('\n')
split_nl(s) ==
    LET nl == {i \in 1..Len(s) : s[i] = 10}
    IN  IF nl = {} THEN <<s>>
        ELSE <<SubSeq(s, 1, MinOf(nl) - 1)>>
                 \o split_nl(SubSeq(s, MinOf(nl) + 1, Len(s)))

RECURSIVE join(_, _)
\* sep.join(parts)
join(sep, parts) ==
    IF Len(parts) = 0 THEN <<>>
    ELSE IF Len(parts) = 1 THEN parts[1]
    ELSE parts[1] \o sep \o join(sep, Tail(parts))

RECURSIVE select_nonempty(_)
\* the filter `if line.strip()` of the list comprehension
select_nonempty(ss) ==
    IF ss = <<>> THEN <<>>
    ELSE IF Head(ss) = <<>> THEN select_nonempty(Tail(ss))
    ELSE <<Head(ss)>> \o select_nonempty(Tail(ss))

-----------------------------------------------------------------------------
(* str literals of the program *)

\* the str 'Unknown Bundle'
UnknownBundle == <<85, 110, 107, 110, 111, 119, 110, 32, 66, 117, 110, 100, 108, 101>>
\* the str 'N/A'
NA == <<78, 47, 65>>
\* the str 'Check Site'
CheckSite == <<67, 104, 101, 99, 107, 32, 83, 105, 116, 101>>
\* the str ', '
CommaSpace == <<44, 32>>
\* the str '\n'
Newline == <<10>>
\* the str 'Rs.'
Lit_Rs == <<82, 115, 46>>
\* the str 'PKR'
Lit_PKR == <<80, 75, 82>>
\* the str 'Consumer Price'
Lit_ConsumerPrice == <<67, 111, 110, 115, 117, 109, 101, 114, 32, 80, 114, 105, 99, 101>>
\* the str 'GB'
Lit_GB == <<71, 66>>
\* the str 'MB'
Lit_MB == <<77, 66>>
\* the str 'Mins'
Lit_Mins == <<77, 105, 110, 115>>
\* the str 'SMS'
Lit_SMS == <<83, 77, 83>>
\* the str 'Weekly'
Lit_Weekly == <<87, 101, 101, 107, 108, 121>>
\* the str 'Monthly'
Lit_Monthly == <<77, 111, 110, 116, 104, 108, 121>>
\* the str 'Daily'
Lit_Daily == <<68, 97, 105, 108, 121>>
\* the str '3 Day'
Lit_3Day == <<51, 32, 68, 97, 121>>
\* the str '3 Days'
Lit_3Days == <<51, 32, 68, 97, 121, 115>>
\* the str 'Subscribe'
Lit_Subscribe == <<83, 117, 98, 115, 99, 114, 105, 98, 101>>

-----------------------------------------------------------------------------
(* parse_offer_text: the patterns *)

\* price_pattern.search(line)
price_pattern(line) ==
    \/ search_ci(line, Lit_Rs)
    \/ search_ci(line, Lit_PKR)
    \/ search_ci(line, Lit_ConsumerPrice)

\* re.search of \d+\s*unit, ignoring case: a digit, then whitespace, then unit
number_then(line, unit) ==
    \E p \in 1..Len(line) :
        /\ line[p] \in Digits
        /\ \E q \in (p + 1)..Len(line) :
              /\ \A r \in (p + 1)..(q - 1) : line[r] \in Whitespace
              /\ match_at_ci(line, unit, q)

\* data_pattern.search(line)
data_pattern(line) == number_then(line, Lit_GB) \/ number_then(line, Lit_MB)

\* mins_pattern.search(line)
mins_pattern(line) == number_then(line, Lit_Mins)

\* sms_pattern.search(line)
sms_pattern(line) == number_then(line, Lit_SMS)

\* re.search(r'[\d,]+', line): the leftmost, longest run; <<>> stands for None
price_match(line) ==
    LET ok(i) == line[i] \in Digits \cup {44}
        starts == {i \in 1..Len(line) : ok(i)}
    IN  IF starts = {} THEN <<>>
        ELSE LET a == MinOf(starts)
                 b == MaxOf({j \in a..Len(line) : \A k \in a..j : ok(k)})
             IN  SubSeq(line, a, b)

\* lines 83-87
price_of(line) == IF price_match(line) # <<>> THEN price_match(line) ELSE line

-----------------------------------------------------------------------------
(* parse_offer_text: the passes *)

\* line 66: split, strip, drop the empty lines; pos numbers the kept lines
split_lines(text) ==
    LET kept == select_nonempty([i \in 1..Len(split_nl(text)) |-> strip(split_nl(text)[i])])
    IN  [i \in 1..Len(kept) |-> [pos |-> i, text |-> kept[i]]]

\* a loop without the break of line 89 ends on the last match
last_match(hits) == MaxOf(hits)

\* the index at which the for loop of line 80 breaks
first_match(hits) == MinOf(hits)

\* pop that leaves the list as it is
pop_nothing(seq, i) == seq

\* list.pop(i)
pop(seq, i) == SubSeq(seq, 1, i - 1) \o SubSeq(seq, i + 1, Len(seq))

\* lines 80-89
price_pass(ls) ==
    LET hits == {i \in 1..Len(ls) : price_pattern(ls[i].text)}
    IN  IF hits = {} THEN [price |-> NA, price_pos |-> 0, lines |-> ls]
        ELSE LET i == first_match(hits)
             IN  [price |-> price_of(ls[i].text),
                  price_pos |-> ls[i].pos,
                  lines |-> pop(ls, i)]

\* lines 95-103: the three appends of one iteration
append_details(acc, line) ==
    LET d1 == IF data_pattern(line.text) THEN Append(acc, line) ELSE acc
        d2 == IF mins_pattern(line.text) THEN Append(d1, line) ELSE d1
        d3 == IF sms_pattern(line.text) THEN Append(d2, line) ELSE d2
    IN  d3

\* is_detail at line 111
is_detail(line) ==
    data_pattern(line.text) \/ mins_pattern(line.text) \/ sms_pattern(line.text)

\* the if/elif chain guarded so that only the first hint is kept
validity_first_hint(v, line) ==
    IF v.validity # NA THEN v
    ELSE IF contains(line.text, Lit_Weekly)
        THEN [validity |-> Lit_Weekly, validity_pos |-> line.pos]
    ELSE IF contains(line.text, Lit_Monthly)
        THEN [validity |-> Lit_Monthly, validity_pos |-> line.pos]
    ELSE IF contains(line.text, Lit_Daily)
        THEN [validity |-> Lit_Daily, validity_pos |-> line.pos]
    ELSE IF contains(line.text, Lit_3Day)
        THEN [validity |-> Lit_3Days, validity_pos |-> line.pos]
    ELSE v

\* lines 106-109: v is [validity, validity_pos] before the line
validity_logic(v, line) ==
    IF contains(line.text, Lit_Weekly)
        THEN [validity |-> Lit_Weekly, validity_pos |-> line.pos]
    ELSE IF contains(line.text, Lit_Monthly)
        THEN [validity |-> Lit_Monthly, validity_pos |-> line.pos]
    ELSE IF contains(line.text, Lit_Daily)
        THEN [validity |-> Lit_Daily, validity_pos |-> line.pos]
    ELSE IF contains(line.text, Lit_3Day)
        THEN [validity |-> Lit_3Days, validity_pos |-> line.pos]
    ELSE v

\* lines 94-112: one iteration of the loop
detail_step(acc, line) ==
    [details |-> append_details(acc.details, line),
     v |-> validity_logic(acc.v, line),
     filtered_lines |-> IF ~is_detail(line) THEN Append(acc.filtered_lines, line)
                        ELSE acc.filtered_lines]

RECURSIVE detail_loop(_, _, _)
\* lines 92-112
detail_loop(ls, k, acc) ==
    IF k > Len(ls) THEN acc
    ELSE detail_loop(ls, k + 1, detail_step(acc, ls[k]))

\* lines 70-71, 92-112
detail_pass(ls) ==
    detail_loop(ls, 1, [details |-> <<>>,
                        v |-> [validity |-> NA, validity_pos |-> 0],
                        filtered_lines |-> <<>>])

\* line 117
name_ok(line) ==
    /\ Len(line) > 3
    /\ ~contains(line, Lit_Subscribe)
    /\ ~contains(line, Lit_ConsumerPrice)

\* lines 68, 116-119
name_pass(fl) ==
    LET ok == {i \in 1..Len(fl) : name_ok(fl[i].text)}
    IN  IF ok = {} THEN [name |-> UnknownBundle, name_pos |-> 0]
        ELSE [name |-> fl[MinOf(ok)].text, name_pos |-> fl[MinOf(ok)].pos]

\* line 121
join_details(ds) ==
    IF Len(ds) > 0 THEN join(CommaSpace, [i \in 1..Len(ds) |-> ds[i].text])
    ELSE CheckSite

\* lines 62-122, as a function of the text
parse_offer_text(text) ==
    LET p == price_pass(split_lines(text))
        d == detail_pass(p.lines)
        n == name_pass(d.filtered_lines)
    IN  [name |-> n.name, validity |-> d.v.validity,
         details |-> join_details(d.details), price |-> p.price]

-----------------------------------------------------------------------------
(* The text blocks parse_offer_text is applied to *)

RawLines == {
    \* 'Weekly Super Card'
    <<87, 101, 101, 107, 108, 121, 32, 83, 117, 112, 101, 114, 32, 67, 97, 114, 100>>,
    \* '10GB 500 Mins'
    <<49, 48, 71, 66, 32, 53, 48, 48, 32, 77, 105, 110, 115>>,
    \* 'Rs. 250 Incl. Tax'
    <<82, 115, 46, 32, 50, 53, 48, 32, 73, 110, 99, 108, 46, 32, 84, 97, 120>>,
    \* 'PKR 99 5GB Monthly'
    <<80, 75, 82, 32, 57, 57, 32, 53, 71, 66, 32, 77, 111, 110, 116, 104, 108, 121>>,
    \* 'WEEKLY OFFER'
    <<87, 69, 69, 75, 76, 89, 32, 79, 70, 70, 69, 82>>,
    \* '250 Incl. Tax'
    <<50, 53, 48, 32, 73, 110, 99, 108, 46, 32, 84, 97, 120>>,
    \* 'Subscribe'
    <<83, 117, 98, 115, 99, 114, 105, 98, 101>>,
    \* '\xa0Daily 1\xa0gb '
    <<160, 68, 97, 105, 108, 121, 32, 49, 160, 103, 98, 32>>,
    \* 'consumer price'
    <<99, 111, 110, 115, 117, 109, 101, 114, 32, 112, 114, 105, 99, 101>>,
    \* 'valid for 3 days'
    <<118, 97, 108, 105, 100, 32, 102, 111, 114, 32, 51, 32, 100, 97, 121, 115>>,
    \* '3 Day \u06f1\u06f0\u06f0 \u017fM\u017f'
    <<51, 32, 68, 97, 121, 32, 1777, 1776, 1776, 32, 383, 77, 383>>,
    \* 'R\u017f. \u0662\u0665\u0660'
    <<82, 383, 46, 32, 1634, 1637, 1632>>,
    \* '\x0c '
    <<12, 32>> }

RawBlocks == UNION {[1..n -> RawLines] : n \in 0..MaxLines}

TextBlocks == {join(Newline, raw) : raw \in RawBlocks}

-----------------------------------------------------------------------------
(* str literals of the scrapers and of process_data *)

\* the str 'Zong'
Zong == <<90, 111, 110, 103>>
\* the str 'Jazz'
Jazz == <<74, 97, 122, 122>>
\* the str 'New Offer'
NewOffer == <<78, 101, 119, 32, 79, 102, 102, 101, 114>>
\* the str 'Same as yesterday'
SameAsYesterday == <<83, 97, 109, 101, 32, 97, 115, 32, 121, 101, 115, 116, 101, 114, 100, 97, 121>>
\* the str 'Changed: '
ChangedPrefix == <<67, 104, 97, 110, 103, 101, 100, 58, 32>>
\* the str 'Price: '
PricePrefix == <<80, 114, 105, 99, 101, 58, 32>>
\* the str '->'
Arrow == <<45, 62>>
\* the str 'Details Updated'
DetailsUpdated == <<68, 101, 116, 97, 105, 108, 115, 32, 85, 112, 100, 97, 116, 101, 100>>

-----------------------------------------------------------------------------
(* The scrapers.  A card is what find_elements returned for it: reading its *)
(* text either raises or gives the text.                                    *)

\* lines 138-140: the offers one card adds
zong_card(card) ==
    IF card.raises THEN <<>>
    ELSE LET p == parse_offer_text(card.text)
         IN  IF p.name # UnknownBundle
                 THEN << <<Zong, p.name, p.validity, p.details, p.price>> >>
             ELSE <<>>

RECURSIVE zong_cards(_)
\* lines 136-141
zong_cards(cards) ==
    IF cards = <<>> THEN <<>>
    ELSE zong_card(Head(cards)) \o zong_cards(Tail(cards))

\* lines 170-173
jazz_validity(p) ==
    IF p.validity = NA
        THEN IF contains(p.name, Lit_Weekly) THEN Lit_Weekly
             ELSE IF contains(p.name, Lit_Monthly) THEN Lit_Monthly
             ELSE IF contains(p.name, Lit_Daily) THEN Lit_Daily
             ELSE p.validity
    ELSE p.validity

\* lines 167-175: the offers one card adds
jazz_card(card) ==
    IF card.raises THEN <<>>
    ELSE LET p == parse_offer_text(card.text)
         IN  << <<Jazz, p.name, jazz_validity(p), p.details, p.price>> >>

RECURSIVE jazz_cards(_)
\* lines 165-176
jazz_cards(cards) ==
    IF cards = <<>> THEN <<>>
    ELSE jazz_card(Head(cards)) \o jazz_cards(Tail(cards))

\* lines 159-163: the fallback search is used when the first finds nothing
jazz_found(by_button, by_rs) == IF Len(by_button) = 0 THEN by_rs ELSE by_button

-----------------------------------------------------------------------------
(* process_data *)

\* the str 'Operator'
Col_Operator == <<79, 112, 101, 114, 97, 116, 111, 114>>
\* the str 'Offer Name'
Col_OfferName == <<79, 102, 102, 101, 114, 32, 78, 97, 109, 101>>
\* the str 'Price'
Col_Price == <<80, 114, 105, 99, 101>>
\* the str 'Details'
Col_Details == <<68, 101, 116, 97, 105, 108, 115>>

\* line 187, sheet.get_all_records(): the first row of the sheet gives the keys,
\* every later row is one dict(zip(keys, row)); a sheet of at most one row
\* gives the empty list.  The cells are kept as the strings the sheet shows.
get_all_records(rows) ==
    IF Len(rows) <= 1 THEN <<>>
    ELSE LET keys == rows[1]
             names == {keys[j] : j \in 1..Len(keys)}
             at(k) == MaxOf({j \in 1..Len(keys) : keys[j] = k})
         IN  [i \in 1..(Len(rows) - 1) |-> [k \in names |-> rows[i + 1][at(k)]]]

\* line 190: pd.DataFrame(existing_records).columns
columns(df_old) == IF Len(df_old) = 0 THEN {} ELSE DOMAIN df_old[1]

\* line 199
match_rows(df_old, operator, offer_name) ==
    SelectSeq(df_old, LAMBDA r : r[Col_Operator] = operator /\ r[Col_OfferName] = offer_name)

\* line 203: match.iloc[-1]
last_entry(match) == match[Len(match)]

\* the comparison on the price alone
compare_price_only(entry, row_price, row_details) ==
    LET last_price == strip(entry[Col_Price])
        price_changed == last_price # strip(row_price)
    IN  IF ~price_changed THEN SameAsYesterday
        ELSE ChangedPrefix \o PricePrefix \o last_price \o Arrow \o row_price

\* lines 204-217
compare(entry, row_price, row_details) ==
    LET last_price == strip(entry[Col_Price])
        last_details == strip(entry[Col_Details])
        price_changed == last_price # strip(row_price)
        details_changed == last_details # strip(row_details)
        changes ==
            (IF price_changed
                 THEN << PricePrefix \o last_price \o Arrow \o row_price >>
             ELSE <<>>)
            \o (IF details_changed THEN << DetailsUpdated >> ELSE <<>>)
    IN  IF ~price_changed /\ ~details_changed THEN SameAsYesterday
        ELSE ChangedPrefix \o join(CommaSpace, changes)

\* a lookup of a column the frame does not have
KeyError == [raises |-> TRUE, remark |-> <<>>]

\* lines 194-217: the remark of one row of new_data, or the KeyError that
\* df_old['Operator'] (line 199), last_entry['Price'] (line 204) or
\* last_entry['Details'] (line 205) raises
remark_of(df_old, row) ==
    IF Len(df_old) > 0 /\ Col_OfferName \in columns(df_old)
        THEN IF Col_Operator \notin columns(df_old) THEN KeyError
             ELSE LET match == match_rows(df_old, row[1], row[2])
                  IN  IF Len(match) > 0
                          THEN IF Col_Price \notin columns(df_old)
                                    \/ Col_Details \notin columns(df_old)
                                   THEN KeyError
                               ELSE [raises |-> FALSE,
                                     remark |-> compare(last_entry(match), row[5], row[4])]
                      ELSE [raises |-> FALSE, remark |-> NewOffer]
    ELSE [raises |-> FALSE, remark |-> NewOffer]

\* line 219
processed_row(date, row, remark) == <<date>> \o row \o <<remark>>

-----------------------------------------------------------------------------
(* The pages and the clock the runs see *)

\* the str 'Super Card\n10GB Data\nRs. 250'
Text_Super250 == <<83, 117, 112, 101, 114, 32, 67, 97, 114, 100, 10, 49, 48, 71, 66, 32, 68, 97, 116, 97, 10, 82, 115, 46, 32, 50, 53, 48>>
\* the str 'Super Card\n10GB Data\nRs. 300'
Text_Super300 == <<83, 117, 112, 101, 114, 32, 67, 97, 114, 100, 10, 49, 48, 71, 66, 32, 68, 97, 116, 97, 10, 82, 115, 46, 32, 51, 48, 48>>
\* the str 'Subscribe\nRs. 100'
Text_Chrome == <<83, 117, 98, 115, 99, 114, 105, 98, 101, 10, 82, 115, 46, 32, 49, 48, 48>>

StaleCard == [raises |-> TRUE, text |-> <<>>]

ZongCards == {[raises |-> FALSE, text |-> t] : t \in {Text_Super250, Text_Super300, Text_Chrome}}
                 \cup {StaleCard}

JazzCards == {[raises |-> FALSE, text |-> t] : t \in {Text_Super250, Text_Chrome}}
                 \cup {StaleCard}

CardLists(cards, most) == UNION {[1..n -> cards] : n \in 0..most}

\* the str '2024-05-01'
Date1 == <<50, 48, 50, 52, 45, 48, 53, 45, 48, 49>>
\* the str '2024-05-02'
Date2 == <<50, 48, 50, 52, 45, 48, 53, 45, 48, 50>>

\* datetime.now().strftime("%Y-%m-%d")
Dates == {Date1, Date2}

\* the first row of a sheet laid out as line 219 lays out the rows
\* Date, Operator, Offer Name, Validity, Details, Price, Remark
HeaderRow == <<<<68, 97, 116, 101>>, Col_Operator, Col_OfferName, <<86, 97, 108, 105, 100, 105, 116, 121>>, Col_Details, Col_Price, <<82, 101, 109, 97, 114, 107>>>>

\* a first row that calls the second column 'Network'
HeaderNoOperator == [HeaderRow EXCEPT ![2] = <<78, 101, 116, 119, 111, 114, 107>>]

\* a first row that calls the third column 'Name'
HeaderNoOfferName == [HeaderRow EXCEPT ![3] = <<78, 97, 109, 101>>]

\* a first row that calls the sixth column 'Cost'
HeaderNoPrice == [HeaderRow EXCEPT ![6] = <<67, 111, 115, 116>>]

\* the sheet as the first run finds it: the code never writes a first row itself
InitialSheets == {<<>>, <<HeaderRow>>, <<HeaderNoOperator>>}

\* the number of rows the runs have appended to the sheet so far
appended == Len(SelectSeq(batch, LAMBDA b : b > 0))

NotCalled == [status |-> "none", offers |-> <<>>]

-----------------------------------------------------------------------------
(* Rest states of the two machines *)

ParseIdle ==
    /\ ppc = "start"
    /\ lines = <<>>
    /\ price = NA
    /\ price_pos = 0
    /\ details = <<>>
    /\ validity = NA
    /\ validity_pos = 0
    /\ filtered_lines = <<>>
    /\ name = UnknownBundle
    /\ name_pos = 0
    /\ full_details = <<>>

RunIdle ==
    /\ pc = "idle"
    /\ driver = "none"
    /\ all_offers = <<>>
    /\ existing_records = <<>>
    /\ processed_rows = <<>>
    /\ today = <<>>
    /\ zong_ret = NotCalled
    /\ jazz_ret = NotCalled
    /\ reads = 0
    /\ appends = 0

-----------------------------------------------------------------------------
(* parse_offer_text as a state machine, one action per pass *)

InitParse ==
    /\ text_block \in TextBlocks
    /\ ParseIdle
    /\ RunIdle
    /\ ledger = <<>>
    /\ batch = <<>>

\* line 66
ParseSplit ==
    /\ ppc = "start"
    /\ lines' = split_lines(text_block)
    /\ ppc' = "price"
    /\ UNCHANGED <<text_block, price, price_pos, details, validity, validity_pos,
                   filtered_lines, name, name_pos, full_details>>
    /\ UNCHANGED run_vars

\* lines 80-89
ParsePrice ==
    /\ ppc = "price"
    /\ LET p == price_pass(lines)
       IN  /\ price' = p.price
           /\ price_pos' = p.price_pos
           /\ lines' = p.lines
    /\ ppc' = "details"
    /\ UNCHANGED <<text_block, details, validity, validity_pos, filtered_lines,
                   name, name_pos, full_details>>
    /\ UNCHANGED run_vars

\* lines 92-112
ParseDetails ==
    /\ ppc = "details"
    /\ LET d == detail_pass(lines)
       IN  /\ details' = d.details
           /\ validity' = d.v.validity
           /\ validity_pos' = d.v.validity_pos
           /\ filtered_lines' = d.filtered_lines
    /\ ppc' = "name"
    /\ UNCHANGED <<text_block, lines, price, price_pos, name, name_pos, full_details>>
    /\ UNCHANGED run_vars

\* lines 116-122
ParseName ==
    /\ ppc = "name"
    /\ LET n == name_pass(filtered_lines)
       IN  /\ name' = n.name
           /\ name_pos' = n.name_pos
    /\ full_details' = join_details(details)
    /\ ppc' = "done"
    /\ UNCHANGED <<text_block, lines, price, price_pos, details, validity,
                   validity_pos, filtered_lines>>
    /\ UNCHANGED run_vars

NextParse ==
    \/ ParseSplit
    \/ ParsePrice
    \/ ParseDetails
    \/ ParseName

SpecParse == InitParse /\ [][NextParse]_vars

-----------------------------------------------------------------------------
(* main, run after run against the same sheet *)

Init ==
    /\ text_block = <<>>
    /\ ParseIdle
    /\ RunIdle
    /\ ledger \in InitialSheets
    /\ batch = [i \in 1..Len(ledger) |-> 0]

\* lines 226-230: the sheet and the driver are obtained
StartRun ==
    /\ pc = "idle"
    /\ appended < MaxLedger
    /\ pc' = "zong"
    /\ driver' = "open"
    /\ UNCHANGED <<all_offers, ledger, batch, existing_records, processed_rows, today,
                   zong_ret, jazz_ret, reads, appends>>
    /\ UNCHANGED parse_vars

\* line 229: get_driver raises out of main, which ends before any scraper ran
GetDriverRaises ==
    /\ pc = "idle"
    /\ pc' = "done"
    /\ driver' = "failed"
    /\ UNCHANGED <<all_offers, ledger, batch, existing_records, processed_rows, today,
                   zong_ret, jazz_ret, reads, appends>>
    /\ UNCHANGED parse_vars

\* lines 226-227: get_sheet_data returned None
StartNoSheet ==
    /\ pc = "idle"
    /\ pc' = "done"
    /\ UNCHANGED <<driver, all_offers, ledger, batch, existing_records, processed_rows,
                   today, zong_ret, jazz_ret, reads, appends>>
    /\ UNCHANGED parse_vars

\* line 232, lines 126-146: scrape_zong returns what its card loop collected
ZongReturns ==
    /\ pc = "zong"
    /\ \E cards \in CardLists(ZongCards, MaxCards) :
          /\ appended + Len(cards) <= MaxLedger
          /\ zong_ret' = [status |-> "returned", offers |-> zong_cards(cards)]
          /\ all_offers' = all_offers \o zong_cards(cards)
    /\ pc' = "jazz"
    /\ UNCHANGED <<driver, ledger, batch, existing_records, processed_rows, today,
                   jazz_ret, reads, appends>>
    /\ UNCHANGED parse_vars

\* lines 134, 142-146: find_elements raises, scrape_zong returns the empty list
ZongFindFails ==
    /\ pc = "zong"
    /\ zong_ret' = [status |-> "caught", offers |-> <<>>]
    /\ all_offers' = all_offers \o <<>>
    /\ pc' = "jazz"
    /\ UNCHANGED <<driver, ledger, batch, existing_records, processed_rows, today,
                   jazz_ret, reads, appends>>
    /\ UNCHANGED parse_vars

\* driver.get raises out of scrape_zong and nothing catches it: main ends
ZongRaisesUncaught ==
    /\ pc = "zong"
    /\ zong_ret' = [status |-> "failed", offers |-> <<>>]
    /\ pc' = "done"
    /\ UNCHANGED <<driver, all_offers, ledger, batch, existing_records, processed_rows,
                   today, jazz_ret, reads, appends>>
    /\ UNCHANGED parse_vars

\* lines 128, 232-233: driver.get raises out of scrape_zong, main catches it
ZongRaises ==
    /\ pc = "zong"
    /\ zong_ret' = [status |-> "failed", offers |-> <<>>]
    /\ pc' = "jazz"
    /\ UNCHANGED <<driver, all_offers, ledger, batch, existing_records, processed_rows,
                   today, jazz_ret, reads, appends>>
    /\ UNCHANGED parse_vars

\* line 235, lines 148-181: scrape_jazz returns what its card loop collected
JazzReturns ==
    /\ pc = "jazz"
    /\ \E by_button \in CardLists(JazzCards, MaxCards) :
       \E by_rs \in (IF Len(by_button) = 0 THEN CardLists(JazzCards, MaxCards) ELSE {<<>>}) :
          LET cards == jazz_found(by_button, by_rs)
          IN  /\ appended + Len(all_offers) + Len(cards) <= MaxLedger
              /\ jazz_ret' = [status |-> "returned", offers |-> jazz_cards(cards)]
              /\ all_offers' = all_offers \o jazz_cards(cards)
    /\ pc' = "quit"
    /\ UNCHANGED <<driver, ledger, batch, existing_records, processed_rows, today,
                   zong_ret, reads, appends>>
    /\ UNCHANGED parse_vars

\* lines 159-163, 177-181: find_elements raises, scrape_jazz returns the empty list
JazzFindFails ==
    /\ pc = "jazz"
    /\ jazz_ret' = [status |-> "caught", offers |-> <<>>]
    /\ all_offers' = all_offers \o <<>>
    /\ pc' = "quit"
    /\ UNCHANGED <<driver, ledger, batch, existing_records, processed_rows, today,
                   zong_ret, reads, appends>>
    /\ UNCHANGED parse_vars

\* lines 150-152, 235-236: driver.get or scroll_to_bottom raises, main catches it
JazzRaises ==
    /\ pc = "jazz"
    /\ jazz_ret' = [status |-> "failed", offers |-> <<>>]
    /\ pc' = "quit"
    /\ UNCHANGED <<driver, all_offers, ledger, batch, existing_records, processed_rows,
                   today, zong_ret, reads, appends>>
    /\ UNCHANGED parse_vars

\* line 238
Quit ==
    /\ pc = "quit"
    /\ driver' = "quit"
    /\ pc' = "branch"
    /\ UNCHANGED <<all_offers, ledger, batch, existing_records, processed_rows, today,
                   zong_ret, jazz_ret, reads, appends>>
    /\ UNCHANGED parse_vars

\* line 238: driver.quit() raises; no handler encloses it, main ends with the
\* exception and lines 240-249 do not run
QuitRaises ==
    /\ pc = "quit"
    /\ driver' = "quit_raised"
    /\ pc' = "done"
    /\ UNCHANGED <<all_offers, ledger, batch, existing_records, processed_rows, today,
                   zong_ret, jazz_ret, reads, appends>>
    /\ UNCHANGED parse_vars

\* lines 240, 248-249
NoOffers ==
    /\ pc = "branch"
    /\ all_offers = <<>>
    /\ pc' = "done"
    /\ UNCHANGED <<driver, all_offers, ledger, batch, existing_records, processed_rows,
                   today, zong_ret, jazz_ret, reads, appends>>
    /\ UNCHANGED parse_vars

\* lines 240-243, 185-191: process_data reads the sheet and the clock
ReadLedger ==
    /\ pc = "branch"
    /\ all_offers # <<>>
    /\ existing_records' = get_all_records(ledger)
    /\ reads' = reads + 1
    /\ processed_rows' = <<>>
    /\ today' \in Dates
    /\ pc' = "loop"
    /\ UNCHANGED <<driver, all_offers, ledger, batch, zong_ret, jazz_ret, appends>>
    /\ UNCHANGED parse_vars

\* lines 187, 246-247: get_all_records raises, main catches it
ReadFails ==
    /\ pc = "branch"
    /\ all_offers # <<>>
    /\ reads' = reads + 1
    /\ pc' = "done"
    /\ UNCHANGED <<driver, all_offers, ledger, batch, existing_records, processed_rows,
                   today, zong_ret, jazz_ret, appends>>
    /\ UNCHANGED parse_vars

\* the loop with a lookup that also sees the rows computed so far in this run
ProcessRowSeesRun ==
    /\ pc = "loop"
    /\ Len(processed_rows) < Len(all_offers)
    /\ LET row == all_offers[Len(processed_rows) + 1]
           r == remark_of(get_all_records(ledger \o processed_rows), row)
       IN  /\ ~r.raises
           /\ processed_rows' = Append(processed_rows, processed_row(today, row, r.remark))
    /\ UNCHANGED <<pc, driver, all_offers, ledger, batch, existing_records, today,
                   zong_ret, jazz_ret, reads, appends>>
    /\ UNCHANGED parse_vars

\* lines 193-219: one iteration of the loop over new_data
ProcessRow ==
    /\ pc = "loop"
    /\ Len(processed_rows) < Len(all_offers)
    /\ LET row == all_offers[Len(processed_rows) + 1]
           r == remark_of(existing_records, row)
       IN  /\ ~r.raises
           /\ processed_rows' = Append(processed_rows, processed_row(today, row, r.remark))
    /\ UNCHANGED <<pc, driver, all_offers, ledger, batch, existing_records, today,
                   zong_ret, jazz_ret, reads, appends>>
    /\ UNCHANGED parse_vars

\* lines 199, 204-205, 246-247: an iteration raises KeyError out of process_data,
\* main catches it and nothing is appended
ProcessRowRaises ==
    /\ pc = "loop"
    /\ Len(processed_rows) < Len(all_offers)
    /\ remark_of(existing_records, all_offers[Len(processed_rows) + 1]).raises
    /\ pc' = "done"
    /\ UNCHANGED <<driver, all_offers, ledger, batch, existing_records, processed_rows,
                   today, zong_ret, jazz_ret, reads, appends>>
    /\ UNCHANGED parse_vars

\* lines 221, 243-245: sheet.append_rows(final_rows)
AppendRows ==
    /\ pc = "loop"
    /\ Len(processed_rows) = Len(all_offers)
    /\ ledger' = ledger \o processed_rows
    /\ batch' = batch \o [i \in 1..Len(processed_rows) |->
                             IF batch = <<>> THEN 1 ELSE batch[Len(batch)] + 1]
    /\ appends' = appends + 1
    /\ pc' = "done"
    /\ UNCHANGED <<driver, all_offers, existing_records, processed_rows, today,
                   zong_ret, jazz_ret, reads>>
    /\ UNCHANGED parse_vars

\* lines 244, 246-247: append_rows raises, main catches it
AppendFails ==
    /\ pc = "loop"
    /\ Len(processed_rows) = Len(all_offers)
    /\ pc' = "done"
    /\ UNCHANGED <<driver, all_offers, ledger, batch, existing_records, processed_rows,
                   today, zong_ret, jazz_ret, reads, appends>>
    /\ UNCHANGED parse_vars

\* main has returned; the next run starts from a fresh process
EndRun ==
    /\ pc = "done"
    /\ pc' = "idle"
    /\ driver' = "none"
    /\ all_offers' = <<>>
    /\ existing_records' = <<>>
    /\ processed_rows' = <<>>
    /\ today' = <<>>
    /\ zong_ret' = NotCalled
    /\ jazz_ret' = NotCalled
    /\ reads' = 0
    /\ appends' = 0
    /\ UNCHANGED <<ledger, batch>>
    /\ UNCHANGED parse_vars

Next ==
    \/ StartRun
    \/ StartNoSheet
    \/ GetDriverRaises
    \/ ZongReturns
    \/ ZongFindFails
    \/ ZongRaises
    \/ JazzReturns
    \/ JazzFindFails
    \/ JazzRaises
    \/ Quit
    \/ QuitRaises
    \/ NoOffers
    \/ ReadLedger
    \/ ReadFails
    \/ ProcessRow
    \/ ProcessRowRaises
    \/ AppendRows
    \/ AppendFails
    \/ EndRun

Spec == Init /\ [][Next]_vars

-----------------------------------------------------------------------------
(* process_data applied to one new offer and an arbitrary sheet *)

\* the str 'Super Card'
SuperCard == <<83, 117, 112, 101, 114, 32, 67, 97, 114, 100>>
\* the str 'super card'
SuperCardLower == <<115, 117, 112, 101, 114, 32, 99, 97, 114, 100>>
\* the str '250'
P250 == <<50, 53, 48>>
\* the str '250 '
P250Trail == <<50, 53, 48, 32>>
\* the str ' 250'
P250Lead == <<32, 50, 53, 48>>
\* the str '300'
P300 == <<51, 48, 48>>
\* the str '10GB Data'
Data10 == <<49, 48, 71, 66, 32, 68, 97, 116, 97>>
\* the str '20GB Data'
Data20 == <<50, 48, 71, 66, 32, 68, 97, 116, 97>>

HistKeys == {<<Zong, SuperCard>>, <<Zong, SuperCardLower>>}

HistRows == {<<Date1, k[1], k[2], NA, d, p, NewOffer>> :
                 k \in HistKeys, d \in {Data10, Data20}, p \in {P250, P250Trail, P300}}

\* what the sheet starts with: nothing, or one of the first rows
HistSheets == {<<>>, <<HeaderRow>>, <<HeaderNoOperator>>, <<HeaderNoOfferName>>, <<HeaderNoPrice>>}

NewRows == {<<o, SuperCard, NA, d, p>> :
                o \in {Zong, Jazz}, d \in {Data10, Data20}, p \in {P250, P250Lead, P300}}

InitProcess ==
    /\ text_block = <<>>
    /\ ParseIdle
    /\ pc = "branch"
    /\ driver = "quit"
    /\ all_offers \in {<<row>> : row \in NewRows}
    /\ \E first \in HistSheets, rows \in UNION {[1..n -> HistRows] : n \in 0..MaxHist} :
          ledger = first \o rows
    /\ batch = [i \in 1..Len(ledger) |-> 0]
    /\ existing_records = <<>>
    /\ processed_rows = <<>>
    /\ today = <<>>
    /\ zong_ret = NotCalled
    /\ jazz_ret = NotCalled
    /\ reads = 0
    /\ appends = 0

NextProcess ==
    \/ ReadLedger
    \/ ReadFails
    \/ ProcessRow
    \/ ProcessRowRaises
    \/ AppendRows
    \/ AppendFails

SpecProcess == InitProcess /\ [][NextProcess]_vars

-----------------------------------------------------------------------------
(* Properties of parse_offer_text, checked under SpecParse *)

\* the list built at line 66, before any pass changed it
original_lines == split_lines(text_block)

\* the list that is left of ls when the element at index i is taken out
without(ls, i) == [k \in 1..(Len(ls) - 1) |-> IF k < i THEN ls[k] ELSE ls[k + 1]]

\* C1: the line chosen as price (by its position in the block) is gone from
\* the list before the later passes: it is not in details, it did not assign
\* validity, it is not a name candidate and it is not the name.
Thm_C1_PriceLineExclusive ==
    (ppc # "start" /\ ppc # "price" /\ price_pos # 0) =>
        /\ price = price_of(original_lines[price_pos].text)
        /\ \A k \in 1..Len(lines) : lines[k].pos # price_pos
        /\ \A k \in 1..Len(details) : details[k].pos # price_pos
        /\ \A k \in 1..Len(filtered_lines) : filtered_lines[k].pos # price_pos
        /\ validity_pos # price_pos
        /\ name_pos # price_pos

\* C1 witness: a block whose price line would also have been a detail line,
\* a validity hint and a name, and gave none of them.
Wit_C1_PriceLineExclusive ==
    /\ ppc = "done"
    /\ price_pos # 0
    /\ data_pattern(original_lines[price_pos].text)
    /\ contains(original_lines[price_pos].text, Lit_Monthly)
    /\ name_ok(original_lines[price_pos].text)
    /\ details = <<>>
    /\ validity = NA
    /\ name = UnknownBundle

\* some slice of text equals pat
occurs(text, pat) ==
    \E i \in 1..(Len(text) - Len(pat) + 1) : SubSeq(text, i, i + Len(pat) - 1) = pat

\* the validity the if/elif chain of lines 106-109 maps one line to
line_keyword(text) ==
    IF occurs(text, Lit_Weekly) THEN Lit_Weekly
    ELSE IF occurs(text, Lit_Monthly) THEN Lit_Monthly
    ELSE IF occurs(text, Lit_Daily) THEN Lit_Daily
    ELSE IF occurs(text, Lit_3Day) THEN Lit_3Days
    ELSE NA

\* C6: validity is the one mapped from the last line, among those left after
\* the price line was removed, that carries a keyword; N/A when none does.
Thm_C6_LastKeywordWins ==
    (ppc = "name" \/ ppc = "done") =>
        LET K == {k \in 1..Len(lines) : line_keyword(lines[k].text) # NA}
        IN  IF K = {} THEN validity = NA /\ validity_pos = 0
            ELSE /\ validity = line_keyword(lines[MaxOf(K)].text)
                 /\ validity_pos = lines[MaxOf(K)].pos

\* C6 witness: two remaining lines carry different keywords, the later one is
\* a detail line, and the later one's keyword is the result.
Wit_C6_LastKeywordWins ==
    /\ ppc = "done"
    /\ \E j, k \in 1..Len(lines) :
          /\ j < k
          /\ line_keyword(lines[j].text) = Lit_Weekly
          /\ line_keyword(lines[k].text) = Lit_Daily
          /\ is_detail(lines[k])
          /\ \A m \in (k + 1)..Len(lines) : line_keyword(lines[m].text) = NA
          /\ validity = Lit_Daily

\* the validity keywords, matched in any letter case
keyword_any_case(text) ==
    IF search_ci(text, Lit_Weekly) THEN Lit_Weekly
    ELSE IF search_ci(text, Lit_Monthly) THEN Lit_Monthly
    ELSE IF search_ci(text, Lit_Daily) THEN Lit_Daily
    ELSE IF search_ci(text, Lit_3Day) THEN Lit_3Days
    ELSE NA

\* C7: a remaining line containing weekly, monthly, daily or 3 day in any
\* letter case sets validity (the last such line decides).
Cex_C7_KeywordAnyCase ==
    ppc = "done" =>
        LET K == {k \in 1..Len(lines) : keyword_any_case(lines[k].text) # NA}
        IN  K # {} => validity = keyword_any_case(lines[MaxOf(K)].text)

\* the str 'Incl. Tax'
Lit_InclTax == <<73, 110, 99, 108, 46, 32, 84, 97, 120>>

\* the line contains one of the markers, in any letter case
has_marker(text, markers) == \E m \in markers : search_ci(text, m)

\* the price line is the first line of the block with a marker, it alone is
\* taken out, and price is N/A exactly when no line has a marker
price_line_is_first_with(markers) ==
    (ppc # "start" /\ ppc # "price") =>
        LET Q == {i \in 1..Len(original_lines) : has_marker(original_lines[i].text, markers)}
        IN  IF Q = {}
                THEN price = NA /\ price_pos = 0 /\ lines = original_lines
            ELSE /\ price_pos = MinOf(Q)
                 /\ price # NA
                 /\ lines = without(original_lines, MinOf(Q))

\* C8 as stated: the markers are Rs., PKR, Consumer Price and Incl. Tax.
Cex_C8_FourMarkers ==
    price_line_is_first_with({Lit_Rs, Lit_PKR, Lit_ConsumerPrice, Lit_InclTax})

\* C8 as amended: the markers are Rs., PKR and Consumer Price.
Thm_C8_FirstPriceLine ==
    price_line_is_first_with({Lit_Rs, Lit_PKR, Lit_ConsumerPrice})

\* C8 witness: two lines qualify, the first was consumed and the second is
\* still in the block.
Wit_C8_FirstPriceLine ==
    /\ ppc = "done"
    /\ Len(original_lines) = 3
    /\ price_pattern(original_lines[1].text)
    /\ ~price_pattern(original_lines[2].text)
    /\ price_pattern(original_lines[3].text)
    /\ price_pos = 1
    /\ lines = <<original_lines[2], original_lines[3]>>

\* C9: every remaining line that matches a detail rule is in details exactly
\* once, in line order, and the joined string holds each once.
Cex_C9_DetailOnce ==
    ppc = "done" =>
        LET D == SelectSeq(lines, is_detail)
        IN  /\ details = D
            /\ full_details = IF D = <<>> THEN CheckSite
                              ELSE join(CommaSpace, [i \in 1..Len(D) |-> D[i].text])

-----------------------------------------------------------------------------
(* Properties of process_data and main *)

\* two sheet rows, or a sheet row and a row of new_data, have the same key
same_key(operator1, name1, operator2, name2) == operator1 = operator2 /\ name1 = name2

\* the sheet has a column of that name
has_column(c) == Len(ledger) > 0 /\ \E j \in 1..Len(ledger[1]) : ledger[1][j] = c

\* the cell of sheet row r under the column of that name
cell(r, c) == ledger[r][MaxOf({j \in 1..Len(ledger[1]) : ledger[1][j] = c})]

\* the remark for new price and details against an older price and details
remark_against(old_price, old_details, new_price, new_details) ==
    LET price_differs == strip(old_price) # strip(new_price)
        details_differ == strip(old_details) # strip(new_details)
    IN  IF ~price_differs /\ ~details_differ THEN SameAsYesterday
        ELSE ChangedPrefix
                 \o (IF price_differs
                         THEN PricePrefix \o strip(old_price) \o Arrow \o new_price
                     ELSE <<>>)
                 \o (IF price_differs /\ details_differ THEN CommaSpace ELSE <<>>)
                 \o (IF details_differ THEN DetailsUpdated ELSE <<>>)

\* the str 'Changed: Price: 250->300'
Changed250to300 == <<67, 104, 97, 110, 103, 101, 100, 58, 32, 80, 114, 105, 99, 101, 58, 32, 50, 53, 48, 45, 62, 51, 48, 48>>
\* the str 'Changed: Price: 300->250'
Changed300to250 == <<67, 104, 97, 110, 103, 101, 100, 58, 32, 80, 114, 105, 99, 101, 58, 32, 51, 48, 48, 45, 62, 50, 53, 48>>
\* the str 'Changed: Price: 250->300, Details Updated'
ChangedBoth250to300 == <<67, 104, 97, 110, 103, 101, 100, 58, 32, 80, 114, 105, 99, 101, 58, 32, 50, 53, 48, 45, 62, 51, 48, 48, 44, 32, 68, 101, 116, 97, 105, 108, 115, 32, 85, 112, 100, 97, 116, 101, 100>>

\* C2: the remark of a new offer is "New Offer" when no row of the sheet has
\* its operator under Operator and its name under Offer Name; otherwise,
\* against the Price and Details of the last such row, it is the unchanged
\* remark when trimmed price and trimmed details are equal, and else
\* "Changed: " with "Price: old->new" iff the price differs and
\* "Details Updated" iff the details differ, joined by ", ".
Thm_C2_Remark ==
    pc = "loop" =>
        \A i \in 1..Len(processed_rows) :
            LET new == all_offers[i]
                M == {r \in 2..Len(ledger) :
                         /\ has_column(Col_Operator)
                         /\ has_column(Col_OfferName)
                         /\ same_key(cell(r, Col_Operator), cell(r, Col_OfferName),
                                     new[1], new[2])}
            IN  IF M = {} THEN processed_rows[i][7] = NewOffer
                ELSE /\ has_column(Col_Price)
                     /\ has_column(Col_Details)
                     /\ processed_rows[i][7] =
                            remark_against(cell(MaxOf(M), Col_Price),
                                           cell(MaxOf(M), Col_Details), new[5], new[4])

\* C2 witness: under the first row the sheet has two rows of the offer's key,
\* the offer differs from the last of them in price and in details.
Wit_C2_Remark ==
    /\ pc = "loop"
    /\ Len(ledger) = 3
    /\ ledger[1] = HeaderRow
    /\ Len(processed_rows) = 1
    /\ same_key(ledger[2][2], ledger[2][3], all_offers[1][1], all_offers[1][2])
    /\ same_key(ledger[3][2], ledger[3][3], all_offers[1][1], all_offers[1][2])
    /\ ledger[2][6] = P300
    /\ ledger[3][6] = P250Trail
    /\ all_offers[1][5] = P300
    /\ processed_rows[1][7] = ChangedBoth250to300

\* C3: the remark of every row a run appended was computed against the last
\* row, in append order, among the rows of its key that earlier runs appended,
\* whatever the dates; prices 250, 300, 250 on three runs give "New Offer",
\* "Changed: Price: 250->300", "Changed: Price: 300->250".
Cex_C3_AppendOrderRecency ==
    /\ \A i \in 1..Len(ledger) :
          batch[i] > 0 =>
              LET prior == {j \in 1..(i - 1) :
                               /\ batch[j] > 0
                               /\ batch[j] < batch[i]
                               /\ same_key(ledger[j][2], ledger[j][3],
                                           ledger[i][2], ledger[i][3])}
              IN  ledger[i][7] =
                      IF prior = {} THEN NewOffer
                      ELSE remark_against(ledger[MaxOf(prior)][6], ledger[MaxOf(prior)][5],
                                          ledger[i][6], ledger[i][5])
    /\ \A i, j, k \in 1..Len(ledger) :
          ( /\ 0 < batch[i]
            /\ batch[i] < batch[j]
            /\ batch[j] < batch[k]
            /\ same_key(ledger[i][2], ledger[i][3], ledger[j][2], ledger[j][3])
            /\ same_key(ledger[j][2], ledger[j][3], ledger[k][2], ledger[k][3])
            /\ \A m \in 1..k :
                  same_key(ledger[m][2], ledger[m][3], ledger[k][2], ledger[k][3])
                      => m \in {i, j, k}
            /\ ledger[i][6] = P250 /\ ledger[j][6] = P300 /\ ledger[k][6] = P250
            /\ ledger[i][5] = ledger[j][5] /\ ledger[j][5] = ledger[k][5] )
          => ( /\ ledger[i][7] = NewOffer
               /\ ledger[j][7] = Changed250to300
               /\ ledger[k][7] = Changed300to250 )

\* C4: no offer a scraper returned, and no row a run appended to the sheet,
\* has the name "Unknown Bundle".
Cex_C4_NoSentinel ==
    /\ \A i \in 1..Len(zong_ret.offers) : zong_ret.offers[i][2] # UnknownBundle
    /\ \A i \in 1..Len(jazz_ret.offers) : jazz_ret.offers[i][2] # UnknownBundle
    /\ \A i \in 1..Len(all_offers) : all_offers[i][2] # UnknownBundle
    /\ \A i \in 1..Len(ledger) : batch[i] > 0 => ledger[i][3] # UnknownBundle

\* C5: while the rows of a run are computed the sheet was read once and not
\* yet appended to, what was read is the sheet as it is, and each remark is
\* the remark of that offer alone against the sheet; offers whose key is not
\* in the sheet get "New Offer", also when the run has two of them.
Thm_C5_Snapshot ==
    pc = "loop" =>
        /\ reads = 1
        /\ appends = 0
        /\ existing_records = get_all_records(ledger)
        /\ \A i \in 1..Len(processed_rows) :
              /\ processed_rows[i][7] =
                     remark_of(get_all_records(ledger), all_offers[i]).remark
              /\ (\A j \in 1..Len(ledger) :
                     ~same_key(ledger[j][2], ledger[j][3], all_offers[i][1], all_offers[i][2]))
                   => processed_rows[i][7] = NewOffer
        /\ \A i, j \in 1..Len(processed_rows) :
              all_offers[i] = all_offers[j] => processed_rows[i][7] = processed_rows[j][7]

\* C5 witness: the sheet has its first row, one run found the same offer
\* twice, at two prices, its key is not in the sheet, and both rows say
\* "New Offer".
Wit_C5_Snapshot ==
    /\ pc = "loop"
    /\ Len(ledger) > 0
    /\ ledger[1] = HeaderRow
    /\ Len(processed_rows) = 2
    /\ same_key(all_offers[1][1], all_offers[1][2], all_offers[2][1], all_offers[2][2])
    /\ all_offers[1][5] = P250
    /\ all_offers[2][5] = P300
    /\ \A j \in 1..Len(ledger) :
          ~same_key(ledger[j][2], ledger[j][3], all_offers[1][1], all_offers[1][2])
    /\ processed_rows[1][7] = NewOffer
    /\ processed_rows[2][7] = NewOffer

\* what main kept of a scraper's call
kept(ret) == IF ret.status = "failed" THEN <<>> ELSE ret.offers

\* get_driver returned: the run has its driver
obtained == driver \in {"open", "quit", "quit_raised"}

\* C10, the states: with the driver obtained, past the scrapers driver.quit()
\* was called whatever they did, and it has returned wherever the run goes
\* on to the sheet; all_offers is what the scrapers that did not fail
\* returned, Zong's first; a run reads the sheet at most once and appends at
\* most once, and neither when it collected no offer; the rows of the append
\* are one per offer, in order, as (date, operator, name, validity, details,
\* price, remark).
Inv_C10_FailureIsolation ==
    /\ (obtained /\ pc \in {"branch", "loop"}) => driver = "quit"
    /\ (obtained /\ pc = "done") => driver \in {"quit", "quit_raised"}
    /\ (reads > 0 \/ appends > 0) => driver = "quit"
    /\ (obtained /\ pc \in {"quit", "branch", "loop", "done"}) =>
           all_offers = kept(zong_ret) \o kept(jazz_ret)
    /\ reads <= 1
    /\ appends <= 1
    /\ (pc \in {"branch", "done"} /\ all_offers = <<>>) => (reads = 0 /\ appends = 0)
    /\ (pc = "done" /\ appends = 1) =>
           /\ Len(processed_rows) = Len(all_offers)
           /\ Len(ledger) >= Len(all_offers)
           /\ \A i \in 1..Len(all_offers) :
                 LET row == ledger[Len(ledger) - Len(all_offers) + i]
                 IN  /\ Len(row) = 7
                     /\ row[1] = today
                     /\ SubSeq(row, 2, 6) = all_offers[i]
                     /\ row[7] = processed_rows[i][7]

\* C10, the steps: a scraper's end, failed or not, leads to the next stage of
\* main and so to the call of driver.quit(); when that call returns the run
\* goes on to the offers it collected, reading the sheet if there is one; and
\* the sheet changes only by the one append of the rows of the run.
Act_C10_FailureIsolation ==
    /\ (pc = "zong" => pc' = "jazz")
    /\ (pc = "jazz" => pc' = "quit")
    /\ (pc = "quit" => \/ (pc' = "branch" /\ driver' = "quit")
                       \/ (pc' = "done" /\ driver' = "quit_raised" /\ ledger' = ledger))
    /\ ((pc = "branch" /\ all_offers # <<>>) => reads' = 1)
    /\ (ledger' # ledger =>
           /\ pc = "loop"
           /\ all_offers # <<>>
           /\ Len(processed_rows) = Len(all_offers)
           /\ ledger' = ledger \o processed_rows)

\* C10: failure isolation across the scrapers of one run.
Thm_C10_FailureIsolation ==
    []Inv_C10_FailureIsolation /\ [][Act_C10_FailureIsolation]_vars

\* C10 witness: scrape_zong raised, scrape_jazz skipped nothing and returned
\* an offer, the driver is quit and the offer's row was appended.
Wit_C10_FailureIsolation ==
    /\ pc = "done"
    /\ zong_ret.status = "failed"
    /\ jazz_ret.status = "returned"
    /\ Len(jazz_ret.offers) = 1
    /\ driver = "quit"
    /\ appends = 1
    /\ ledger[Len(ledger)][2] = Jazz

====
